---- MODULE Spec2Model ----
(***************************************************************************)
(* Model of collatz_bigint_file (src/src/main.rs): a start value is read   *)
(* as text, parsed (plain decimal or base^exponent[-subtract]), its        *)
(* Collatz sequence is written through a BufWriter to a file, the file is  *)
(* reopened and read line by line, and statistics are accumulated.         *)
(*                                                                         *)
(* Text is a sequence of one-character strings.  File contents are a flat  *)
(* sequence of characters (bytes), lines are recovered by splitting on     *)
(* the newline character as BufRead::lines does.                           *)
(***************************************************************************)
EXTENDS Integers, Sequences, FiniteSets, TLC

VARIABLES
    pc,             \* position of main: see PcValues
    input_value,    \* main.rs:145  the text read_input returned
    parsed_input,   \* main.rs:148  the value parse_input returned (0 before)
    n,              \* main.rs:83   collatz's running value
    output_file,    \* main.rs:154  the BufWriter: [open, buf]
    disk,           \* the file at OUTPUT_FILE_PATH: [exists, bytes]
    reader,         \* main.rs:164  index of the next unread character of disk
    line_num,       \* main.rs:103  enumerate()'s 0-based counter
    even,           \* main.rs:140
    odd,            \* main.rs:141
    max_value,      \* main.rs:138
    max_index,      \* main.rs:139
    stopping_time,  \* main.rs:142
    warnings,       \* stderr: the line numbers of the "Error parsing line" messages
    emitted,        \* history: the values handed to writeln!, in call order
    seen            \* history: the lines reader.lines() yielded, in order

vars == <<pc, input_value, parsed_input, n, output_file, disk, reader, line_num,
          even, odd, max_value, max_index, stopping_time, warnings, emitted, seen>>

-----------------------------------------------------------------------------
(* Bounds of the model *)

\* longest typed start-value text enumerated over Alphabet
MaxInputLen == 3
\* cap on the iterations of collatz's loop (it need not end for a start <= 0)
MaxSteps == 200
\* longest source, in lines, handed to line_read on its own
MaxLines == 4

-----------------------------------------------------------------------------
(* Characters and text *)

NL == "\n"

Digits == {"0", "1", "2", "3", "4", "5", "6", "7", "8", "9"}

DigitVal(c) ==
    CASE c = "0" -> 0 [] c = "1" -> 1 [] c = "2" -> 2 [] c = "3" -> 3
      [] c = "4" -> 4 [] c = "5" -> 5 [] c = "6" -> 6 [] c = "7" -> 7
      [] c = "8" -> 8 [] c = "9" -> 9

DigitChar(d) ==
    CASE d = 0 -> "0" [] d = 1 -> "1" [] d = 2 -> "2" [] d = 3 -> "3"
      [] d = 4 -> "4" [] d = 5 -> "5" [] d = 6 -> "6" [] d = 7 -> "7"
      [] d = 8 -> "8" [] d = 9 -> "9"

\* char::is_whitespace on the characters the model uses
IsWhitespace(c) == c \in {" ", NL}

\* \d and char::is_ascii_digit agree on the ASCII characters the model uses
IsDigit(c) == c \in Digits

\* str::trim: drop leading and trailing whitespace
RECURSIVE TrimStart(_)
TrimStart(s) ==
    IF s # <<>> /\ IsWhitespace(Head(s)) THEN TrimStart(Tail(s)) ELSE s

RECURSIVE TrimEnd(_)
TrimEnd(s) ==
    IF s # <<>> /\ IsWhitespace(s[Len(s)]) THEN TrimEnd(SubSeq(s, 1, Len(s) - 1)) ELSE s

Trim(s) == TrimEnd(TrimStart(s))

AllDigits(s) == \A i \in 1..Len(s) : IsDigit(s[i])

\* the value of a string of decimal digits, most significant first
RECURSIVE DecVal(_)
DecVal(s) ==
    IF s = <<>> THEN 0 ELSE 10 * DecVal(SubSeq(s, 1, Len(s) - 1)) + DigitVal(s[Len(s)])

-----------------------------------------------------------------------------
(* Integer arithmetic as Rust and num_bigint do it *)

\* BigInt % : the remainder has the sign of the dividend
Rem(a, b) == IF a >= 0 THEN a % b ELSE -((-a) % b)

\* BigInt / : the quotient is truncated toward zero
Quot(a, b) == IF a >= 0 THEN a \div b ELSE -((-a) \div b)

\* BigInt::pow: repeated multiplication, b^0 = 1 (also 0^0)
RECURSIVE Pow(_, _)
Pow(b, e) == IF e = 0 THEN 1 ELSE b * Pow(b, e - 1)

\* the digits of a natural number, most significant first
RECURSIVE NatDigits(_)
NatDigits(k) ==
    IF k < 10 THEN <<DigitChar(k)>> ELSE Append(NatDigits(k \div 10), DigitChar(k % 10))

\* Display for BigInt ("{}"): a minus sign for a negative value, then the digits
Display(v) == IF v < 0 THEN <<"-">> \o NatDigits(-v) ELSE NatDigits(v)

-----------------------------------------------------------------------------
(* parse::<u32> and parse::<BigInt> *)

\* u32::MAX = 4294967295 as decimal digits: the comparison is done on the
\* digits, so that the width is the real one
U32MaxDigits == <<"4", "2", "9", "4", "9", "6", "7", "2", "9", "5">>

RECURSIVE StripZeros(_)
StripZeros(s) ==
    IF Len(s) > 1 /\ Head(s) = "0" THEN StripZeros(Tail(s)) ELSE s

\* s <= t for two digit strings of the same length
RECURSIVE DigitsLeq(_, _)
DigitsLeq(s, t) ==
    IF s = <<>> THEN TRUE
    ELSE IF DigitVal(Head(s)) < DigitVal(Head(t)) THEN TRUE
    ELSE IF DigitVal(Head(s)) > DigitVal(Head(t)) THEN FALSE
    ELSE DigitsLeq(Tail(s), Tail(t))

FitsU32(s) ==
    LET z == StripZeros(s) IN
    \/ Len(z) < Len(U32MaxDigits)
    \/ Len(z) = Len(U32MaxDigits) /\ DigitsLeq(z, U32MaxDigits)

\* str::parse::<u32> on a captured group (digits only, by the pattern):
\* Err(PosOverflow) when the value exceeds u32::MAX
ParseU32(s) ==
    IF s # <<>> /\ AllDigits(s) /\ FitsU32(s)
    THEN [ok |-> TRUE, val |-> DecVal(s)]
    ELSE [ok |-> FALSE, val |-> 0]

\* str::parse::<BigInt>: an optional sign, then one or more digits
ParseBigIntStr(s) ==
    LET neg  == s # <<>> /\ Head(s) = "-"
        s1   == IF neg /\ ~(Len(s) > 1 /\ s[2] = "+") THEN Tail(s) ELSE s
        s2   == IF s1 # <<>> /\ Head(s1) = "+" /\ ~(Len(s1) > 1 /\ s1[2] = "+")
                THEN Tail(s1) ELSE s1
    IN  IF s2 # <<>> /\ AllDigits(s2)
        THEN [ok |-> TRUE, val |-> IF neg THEN -DecVal(s2) ELSE DecVal(s2)]
        ELSE [ok |-> FALSE, val |-> 0]

\* parse_bigint without the guard "if value > BigInt::zero()"
parse_bigint_NoGuard(input) ==
    LET r == ParseBigIntStr(Trim(input)) IN
    IF r.ok THEN [ok |-> TRUE, val |-> r.val] ELSE [ok |-> FALSE, val |-> 0]

\* parse_bigint: trim, parse, and accept only a value > 0
parse_bigint(input) ==
    LET r == ParseBigIntStr(Trim(input)) IN
    IF r.ok /\ r.val > 0 THEN [ok |-> TRUE, val |-> r.val] ELSE [ok |-> FALSE, val |-> 0]

-----------------------------------------------------------------------------
(* The pattern (\d+)\^(\d+)(?:-(\d+))? searched anywhere in the text *)

\* the index just after the longest run of digits that starts at i
RECURSIVE DigitRunEnd(_, _)
DigitRunEnd(s, i) ==
    IF i <= Len(s) /\ IsDigit(s[i]) THEN DigitRunEnd(s, i + 1) ELSE i

\* a match that starts at i: digits, '^', digits
MatchAt(s, i) ==
    LET j == DigitRunEnd(s, i) IN
    /\ j > i
    /\ j < Len(s)
    /\ s[j] = "^"
    /\ IsDigit(s[j + 1])

\* Regex::captures: the leftmost match; groups 1 and 2, and group 3 when
\* the optional "-digits" follows (greedy: taken whenever it can be)
Captures(s) ==
    LET starts == {i \in 1..Len(s) : MatchAt(s, i)} IN
    IF starts = {} THEN [matched |-> FALSE]
    ELSE LET i == CHOOSE a \in starts : \A b \in starts : a <= b
             j == DigitRunEnd(s, i)
             k == DigitRunEnd(s, j + 1)
             hasSub == k < Len(s) /\ s[k] = "-" /\ IsDigit(s[k + 1])
         IN  [matched |-> TRUE,
              g1 |-> SubSeq(s, i, j - 1),
              g2 |-> SubSeq(s, j + 1, k - 1),
              g3 |-> IF hasSub THEN SubSeq(s, k + 1, DigitRunEnd(s, k + 1) - 1)
                     ELSE <<"0">>]

\* parse_input: Some(value), None, or a panic of one of the unwrap()s
parse_input(text) ==
    LET c == Captures(text) IN
    IF c.matched
    THEN LET base     == ParseU32(c.g1)
             exponent == ParseU32(c.g2)
             subtract == ParseU32(c.g3)
         IN  IF base.ok /\ exponent.ok /\ subtract.ok
             THEN [kind |-> "Some", val |-> Pow(base.val, exponent.val) - subtract.val]
             ELSE [kind |-> "Panic", val |-> 0]
    ELSE LET r == parse_bigint(text) IN
         IF r.ok THEN [kind |-> "Some", val |-> r.val] ELSE [kind |-> "None", val |-> 0]

-----------------------------------------------------------------------------
(* The output file behind a BufWriter, and the reader over it *)

\* the file does not exist
NoFile == [exists |-> FALSE, bytes |-> <<>>]

\* the file exists and holds the characters b
File(b) == [exists |-> TRUE, bytes |-> b]

\* std's DEFAULT_BUF_SIZE, the capacity BufWriter::new gives the buffer
BufCapacity == 8192

\* BufWriter::write_all(bytes) on writer w over file content d: the bytes go
\* to the buffer while they fit; otherwise the buffer is flushed first, and
\* bytes as long as the buffer go straight to the file
BufWrite(w, d, bytes) ==
    IF Len(bytes) < BufCapacity - Len(w.buf)
    THEN [w |-> [w EXCEPT !.buf = w.buf \o bytes], d |-> d]
    ELSE LET flushed == Len(bytes) > BufCapacity - Len(w.buf)
             d1 == IF flushed THEN d \o w.buf ELSE d
             b1 == IF flushed THEN <<>> ELSE w.buf
         IN  IF Len(bytes) >= BufCapacity
             THEN [w |-> [w EXCEPT !.buf = b1], d |-> d1 \o bytes]
             ELSE [w |-> [w EXCEPT !.buf = b1 \o bytes], d |-> d1]

\* the index of the first newline of d at or after i, Len(d) + 1 when none
RECURSIVE LineEnd(_, _)
LineEnd(d, i) ==
    IF i > Len(d) \/ d[i] = NL THEN i ELSE LineEnd(d, i + 1)

\* BufRead::lines: the next line, without its newline
NextLine(d, i) == SubSeq(d, i, LineEnd(d, i) - 1)

-----------------------------------------------------------------------------
(* Inputs *)

\* the characters typed start values are enumerated over
Alphabet == {"0", "1", "2", "^", "-", " ", "x"}

Texts == UNION {[1..k -> Alphabet] : k \in 0..MaxInputLen}

\* start values the documentation and the prompt name, and literals around
\* the range of u32
SampleInputs ==
    { <<"2", "7">>,
      <<"6">>,
      <<"2", "^", "1", "0">>,
      <<"2", "^", "1", "0", "-", "1">>,
      <<"2", "^", "1", "0", "-", "2", "0", "0", "0">>,
      <<"0", "^", "5">>,
      <<"2", "^", "0", "-", "1">>,
      <<"-", "5">>,
      <<"a", "b", "c">>,
      <<"4", "2", "9", "4", "9", "6", "7", "2", "9", "6", "^", "1">>,
      <<"2", "^", "4", "2", "9", "4", "9", "6", "7", "2", "9", "6">>,
      <<"2", "^", "1", "-", "4", "2", "9", "4", "9", "6", "7", "2", "9", "6">> }

\* what an earlier run left in the output file
StaleFile == <<"9", NL, "9", NL>>

\* the lines a source handed to line_read is built from
LineChoices ==
    { <<"5">>, <<"9">>, <<"3">>, <<"1", "6">>, <<"x", "x">>, <<"0">>, <<"-", "4">> }

Sources == UNION {[1..k -> LineChoices] : k \in 0..MaxLines}

\* a source as file content: each line followed by a newline
RECURSIVE FileOf(_)
FileOf(ls) ==
    IF ls = <<>> THEN <<>> ELSE FileOf(SubSeq(ls, 1, Len(ls) - 1)) \o ls[Len(ls)] \o <<NL>>

-----------------------------------------------------------------------------
(* main *)

PcValues ==
    {"parse_input", "def_output", "collatz", "drop", "open", "line_read",
     "done", "invalid", "panic"}

\* main.rs:138-142 and the state before any file is opened
Locals ==
    /\ parsed_input = 0
    /\ n = 0
    /\ output_file = [open |-> FALSE, buf |-> <<>>]
    /\ line_num = 0
    /\ even = 0
    /\ odd = 0
    /\ max_value = 0
    /\ max_index = 0
    /\ stopping_time = 0
    /\ warnings = <<>>
    /\ emitted = <<>>
    /\ seen = <<>>

\* read_input has returned the typed text with its newline (read_line keeps it)
Init ==
    /\ pc = "parse_input"
    /\ \E t \in Texts \cup SampleInputs : input_value = t \o <<NL>>
    /\ disk \in {NoFile, File(StaleFile)}
    /\ reader = 0
    /\ Locals

\* main with def_output called before parse_input: the file is created first
ParseInputStep_CreateFirst ==
    /\ pc = "parse_input"
    /\ LET r == parse_input(input_value) IN
       /\ pc' = CASE r.kind = "Some" -> "def_output"
                  [] r.kind = "None" -> "invalid"
                  [] r.kind = "Panic" -> "panic"
       /\ parsed_input' = r.val
    /\ disk' = File(<<>>)
    /\ UNCHANGED <<input_value, n, output_file, reader, line_num, even, odd,
                   max_value, max_index, stopping_time, warnings, emitted, seen>>

\* main.rs:148 if let Some(parsed_input) = parse_input(..) / else / unwrap panics
ParseInputStep ==
    /\ pc = "parse_input"
    /\ LET r == parse_input(input_value) IN
       /\ pc' = CASE r.kind = "Some" -> "def_output"
                  [] r.kind = "None" -> "invalid"
                  [] r.kind = "Panic" -> "panic"
       /\ parsed_input' = r.val
    /\ UNCHANGED <<input_value, n, output_file, disk, reader, line_num, even, odd,
                   max_value, max_index, stopping_time, warnings, emitted, seen>>

\* def_output opening the file in append mode, as the comment at main.rs:153 says
DefOutput_Append ==
    /\ pc = "def_output"
    /\ disk' = IF disk.exists THEN disk ELSE File(<<>>)
    /\ output_file' = [open |-> TRUE, buf |-> <<>>]
    /\ n' = parsed_input
    /\ pc' = "collatz"
    /\ UNCHANGED <<input_value, parsed_input, reader, line_num, even, odd,
                   max_value, max_index, stopping_time, warnings, emitted, seen>>

\* main.rs:151-157 def_output (File::create truncates), BufWriter::new, call collatz
DefOutput ==
    /\ pc = "def_output"
    /\ disk' = File(<<>>)
    /\ output_file' = [open |-> TRUE, buf |-> <<>>]
    /\ n' = parsed_input
    /\ pc' = "collatz"
    /\ UNCHANGED <<input_value, parsed_input, reader, line_num, even, odd,
                   max_value, max_index, stopping_time, warnings, emitted, seen>>

\* main.rs:84 the loop condition
LoopCond(v) == v # 1

\* main.rs:87 with 3n - 1 for 3n + 1
CollatzNext_Minus(v) ==
    IF Rem(v, 2) = 0 THEN Quot(v, 2) ELSE 3 * v - 1

\* main.rs:87 with the halving of 3n + 1 folded into the odd step
CollatzNext_Shortcut(v) ==
    IF Rem(v, 2) = 0 THEN Quot(v, 2) ELSE Quot(3 * v + 1, 2)

\* main.rs:85-88 one application of the rule
CollatzNext(v) ==
    IF Rem(v, 2) = 0 THEN Quot(v, 2) ELSE 3 * v + 1

\* main.rs:84-90 one iteration of collatz: update n, writeln!
CollatzStep ==
    /\ pc = "collatz"
    /\ LoopCond(n)
    /\ Len(emitted) < MaxSteps
    /\ LET v == CollatzNext(n)
           r == BufWrite(output_file, disk.bytes, Display(v) \o <<NL>>)
       IN  /\ n' = v
           /\ output_file' = r.w
           /\ disk' = File(r.d)
           /\ emitted' = Append(emitted, v)
    /\ UNCHANGED <<pc, input_value, parsed_input, reader, line_num, even, odd,
                   max_value, max_index, stopping_time, warnings, seen>>

\* main.rs:84,91 the loop ends and collatz returns
CollatzReturn ==
    /\ pc = "collatz"
    /\ ~LoopCond(n)
    /\ pc' = "drop"
    /\ UNCHANGED <<input_value, parsed_input, n, output_file, disk, reader, line_num,
                   even, odd, max_value, max_index, stopping_time, warnings, emitted, seen>>

\* main.rs:160 drop(output_file): the buffer is flushed and the file closed
DropOutputFile ==
    /\ pc = "drop"
    /\ disk' = File(disk.bytes \o output_file.buf)
    /\ output_file' = [open |-> FALSE, buf |-> <<>>]
    /\ pc' = "open"
    /\ UNCHANGED <<input_value, parsed_input, n, reader, line_num, even, odd,
                   max_value, max_index, stopping_time, warnings, emitted, seen>>

\* main.rs:163-164 File::open, BufReader::new
OpenReader ==
    /\ pc = "open"
    /\ reader' = 1
    /\ pc' = "line_read"
    /\ UNCHANGED <<input_value, parsed_input, n, output_file, disk, line_num, even, odd,
                   max_value, max_index, stopping_time, warnings, emitted, seen>>

\* main.rs:119 with >= for >: a tie would move the maximum's position
NewMax_Geq(v, cur) == v >= cur

\* main.rs:119 the comparison that replaces the running maximum
NewMax(v, cur) == v > cur

\* main.rs:124 with the 0-based counter itself
StoppingTime_ZeroBased(cur, ln) == ln

\* main.rs:124 counting the successes instead of recording the line number
StoppingTime_Count(cur, ln) == cur + 1

\* main.rs:124 *stopping_time = line_num + 1
StoppingTime(cur, ln) == ln + 1

\* the reader has a line left
HasLine == disk.exists /\ reader <= Len(disk.bytes)

\* main.rs:103-133 one iteration of line_read's loop
LineReadStep ==
    /\ pc = "line_read"
    /\ HasLine
    /\ LET line == NextLine(disk.bytes, reader)
           r    == parse_bigint(line)
       IN  /\ seen' = Append(seen, line)
           /\ reader' = LineEnd(disk.bytes, reader) + 1
           /\ line_num' = line_num + 1
           /\ IF r.ok
              THEN /\ even' = IF Rem(r.val, 2) = 0 THEN even + 1 ELSE even
                   /\ odd' = IF Rem(r.val, 2) = 0 THEN odd ELSE odd + 1
                   /\ max_value' = IF NewMax(r.val, max_value) THEN r.val ELSE max_value
                   /\ max_index' = IF NewMax(r.val, max_value) THEN line_num + 1 ELSE max_index
                   /\ stopping_time' = StoppingTime(stopping_time, line_num)
                   /\ UNCHANGED warnings
              ELSE /\ warnings' = Append(warnings, line_num + 1)
                   /\ UNCHANGED <<even, odd, max_value, max_index, stopping_time>>
    /\ UNCHANGED <<pc, input_value, parsed_input, n, output_file, disk, emitted>>

\* main.rs:103,134,175-187 the source is exhausted, line_read returns, the statistics are printed
LineReadReturn ==
    /\ pc = "line_read"
    /\ ~HasLine
    /\ pc' = "done"
    /\ UNCHANGED <<input_value, parsed_input, n, output_file, disk, reader, line_num,
                   even, odd, max_value, max_index, stopping_time, warnings, emitted, seen>>

Next ==
    \/ ParseInputStep
    \/ DefOutput
    \/ CollatzStep
    \/ CollatzReturn
    \/ DropOutputFile
    \/ OpenReader
    \/ LineReadStep
    \/ LineReadReturn

Spec == Init /\ [][Next]_vars

\* line_read handed a source of its own, with main's initial counters
InitLineRead ==
    /\ pc = "line_read"
    /\ input_value = <<>>
    /\ \E ls \in Sources : disk = File(FileOf(ls))
    /\ reader = 1
    /\ Locals

NextLineRead ==
    \/ LineReadStep
    \/ LineReadReturn

SpecLineRead == InitLineRead /\ [][NextLineRead]_vars

-----------------------------------------------------------------------------
(* Vocabulary of the properties *)

\* the rule itself, on the integers
RuleSucc(v) == IF v % 2 = 0 THEN v \div 2 ELSE 3 * v + 1

Last(q) == q[Len(q)]

\* collatz has returned
GenDone == pc \in {"drop", "open", "line_read", "done"}

\* the bytes a sequence of values makes in the persisted format
RECURSIVE Persisted(_)
Persisted(q) ==
    IF q = <<>> THEN <<>>
    ELSE IF Len(q) = 1 THEN Display(q[1]) \o <<NL>>
    ELSE LET h == Len(q) \div 2 IN
         Persisted(SubSeq(q, 1, h)) \o Persisted(SubSeq(q, h + 1, Len(q)))

\* a line that is no positive decimal integer: unparseable, zero or negative
Malformed(line) ==
    LET r == ParseBigIntStr(Trim(line)) IN ~r.ok \/ r.val <= 0

\* the numbers of the lines read so far that are well formed, and their values
OkLines == {i \in 1..Len(seen) : ~Malformed(seen[i])}

ValAt(i) == ParseBigIntStr(Trim(seen[i])).val

\* the number of lines of a file content
NumLines(d) == Cardinality({i \in 1..Len(d) : d[i] = NL})

-----------------------------------------------------------------------------
(* C1 *)

\* C1: whatever parse_input hands on to the generator is strictly greater
\* than zero; a zero or negative result is rejected.
C1_ParsePositive ==
    pc \notin {"parse_input", "invalid", "panic"} => parsed_input > 0

-----------------------------------------------------------------------------
(* C2 *)

\* C2 as stated: for every start >= 1, 1 included, the last element
\* generate appended is 1.
C2_LastIsOne_Original ==
    (GenDone /\ parsed_input >= 1) => (emitted # <<>> /\ Last(emitted) = 1)

\* C2 amended: for every start >= 1 within the bound generate terminates
\* (each iteration appends one element, and the loop is left before
\* MaxSteps elements were appended); for a start >= 2 the last element it
\* appended, and the last line it persisted, is 1; for the start 1 it
\* appends nothing.
C2_Terminates_LastIsOne ==
    /\ (pc = "collatz" /\ parsed_input >= 1) =>
          \/ n = 1
          \/ n > 1 /\ Len(emitted) < MaxSteps
    /\ (GenDone /\ parsed_input >= 1) =>
          IF parsed_input = 1 THEN emitted = <<>>
          ELSE emitted # <<>> /\ Last(emitted) = 1
    /\ (pc = "open" /\ parsed_input >= 2) =>
          /\ Len(disk.bytes) >= 2
          /\ SubSeq(disk.bytes, Len(disk.bytes) - 1, Len(disk.bytes)) = <<"1", NL>>
          /\ (Len(disk.bytes) > 2 => disk.bytes[Len(disk.bytes) - 2] = NL)

C2_Witness ==
    pc = "open" /\ parsed_input = 27 /\ Len(emitted) = 111 /\ Last(emitted) = 1

-----------------------------------------------------------------------------
(* C3 *)

\* C3: every element generate appends is the Collatz successor of the value
\* before it (the start value for the first element): v/2 for even v, 3v+1
\* for odd v; the start value itself is not appended, and the elements
\* reach the sink in generation order.
C3_Successor ==
    emitted # <<>> =>
        /\ emitted[1] = RuleSucc(parsed_input)
        /\ Len(emitted) > 1 => Last(emitted) = RuleSucc(emitted[Len(emitted) - 1])
        /\ pc = "collatz" =>
              /\ n = Last(emitted)
              /\ LET sink == disk.bytes \o output_file.buf
                     line == Display(Last(emitted)) \o <<NL>>
                 IN  /\ Len(sink) >= Len(line)
                     /\ SubSeq(sink, Len(sink) - Len(line) + 1, Len(sink)) = line
                     /\ NumLines(sink) = Len(emitted)

C3_Witness ==
    pc = "collatz" /\ parsed_input = 6 /\ emitted = <<3, 10>>

-----------------------------------------------------------------------------
(* C4 *)

\* C4: round trip: after collect has read what generate wrote for a start
\* >= 1, stopping_time is the number of elements generate produced and
\* even_count + odd_count = stopping_time.
C4_RoundTrip ==
    (pc = "done" /\ parsed_input >= 1) =>
        /\ stopping_time = Len(emitted)
        /\ even + odd = stopping_time

C4_Witness ==
    /\ pc = "done"
    /\ parsed_input = 6
    /\ emitted = <<3, 10, 5, 16, 8, 4, 2, 1>>
    /\ stopping_time = 8
    /\ even = 5
    /\ odd = 3
    /\ max_value = 16
    /\ max_index = 4

-----------------------------------------------------------------------------
(* C5 *)

\* C5: once at least one well-formed line has been read, max_value is the
\* largest value parsed so far and max_index the 1-based number of the
\* first line that holds it: a later equal line changes neither.
C5_MaxFirstOccurrence ==
    OkLines # {} =>
        /\ max_index \in OkLines
        /\ ValAt(max_index) = max_value
        /\ \A i \in OkLines :
              /\ ValAt(i) <= max_value
              /\ ValAt(i) = max_value => max_index <= i

C5_Witness ==
    /\ pc = "done"
    /\ seen = << <<"5">>, <<"9">>, <<"9">>, <<"3">> >>
    /\ max_value = 9
    /\ max_index = 2

-----------------------------------------------------------------------------
(* C6 *)

\* what line_read does with a malformed line: one warning with its 1-based
\* number, no counter touched, the pass goes on
C6_MalformedStep ==
    (pc = "line_read" /\ HasLine /\ Malformed(NextLine(disk.bytes, reader))) =>
        /\ warnings' = Append(warnings, Len(seen) + 1)
        /\ UNCHANGED <<even, odd, max_value, max_index, stopping_time>>
        /\ pc' = "line_read"
        /\ Len(seen') = Len(seen) + 1

\* C6: a malformed line (unparseable, zero or negative) never aborts the
\* pass: it gives exactly one warning with its line number and changes no
\* counter, and every later line is still processed; the warnings are
\* exactly the malformed lines, the counts exactly the well-formed ones.
C6_MalformedLineSkipped ==
    /\ [][C6_MalformedStep]_vars
    /\ [](/\ Len(warnings) + Cardinality(OkLines) = Len(seen)
          /\ \A k \in 1..Len(warnings) :
                /\ warnings[k] \in 1..Len(seen)
                /\ warnings[k] \notin OkLines
                /\ k > 1 => warnings[k - 1] < warnings[k]
          /\ even + odd = Cardinality(OkLines)
          /\ pc # "panic"
          /\ pc = "done" => Len(seen) = NumLines(disk.bytes))

C6_Witness ==
    /\ pc = "done"
    /\ seen = << <<"5">>, <<"x", "x">>, <<"9">> >>
    /\ warnings = <<2>>
    /\ even + odd = 2
    /\ stopping_time = 3

-----------------------------------------------------------------------------
(* C7 *)

\* C7 as stated: after a full pass, malformed lines or not, stopping_time
\* is the number of successfully parsed lines, and so even + odd.
C7_CountOfSuccesses_Original ==
    pc = "done" =>
        /\ stopping_time = Cardinality(OkLines)
        /\ stopping_time = even + odd

\* C7 amended: after a full pass stopping_time is the 1-based number of the
\* last successfully parsed line (0 when there is none); the number of
\* successes is even + odd, which is at most stopping_time and equals it
\* exactly when no malformed line comes before the last well-formed one.
C7_LastParsedLine ==
    pc = "done" =>
        /\ stopping_time = IF OkLines = {} THEN 0
                           ELSE CHOOSE i \in OkLines : \A j \in OkLines : j <= i
        /\ even + odd = Cardinality(OkLines)
        /\ even + odd <= stopping_time
        /\ (stopping_time = even + odd) <=> (\A i \in 1..stopping_time : i \in OkLines)

C7_Witness ==
    /\ pc = "done"
    /\ Len(seen) = 3
    /\ warnings = <<1>>
    /\ stopping_time = 3
    /\ even + odd = 2

-----------------------------------------------------------------------------
(* C8 *)

\* C8: parse_input ends with a value or with InvalidInput, never with a
\* panic, also when a captured literal does not fit u32.
C8_NoPanic ==
    pc # "panic"

-----------------------------------------------------------------------------
(* C9 *)

\* C9: a rejected start value ends the run before anything is generated:
\* the output file is neither created nor truncated nor written, the
\* generator takes no step, the collector does not run, nothing follows.
C9_RejectedRunTouchesNothing ==
    /\ [][pc' = "invalid" => disk' = disk]_vars
    /\ [](pc = "invalid" =>
            /\ disk \in {NoFile, File(StaleFile)}
            /\ ~output_file.open
            /\ output_file.buf = <<>>
            /\ emitted = <<>>
            /\ reader = 0
            /\ seen = <<>>
            /\ <<even, odd, max_value, max_index, stopping_time>> = <<0, 0, 0, 0, 0>>
            /\ ~ENABLED Next)

C9_Witness ==
    pc = "invalid" /\ disk = File(StaleFile) /\ input_value = <<"-", "5", NL>>

-----------------------------------------------------------------------------
(* C10 *)

====
